---- MODULE Spec2Model ----
(***************************************************************************)
(* Model of the multirec scheduler (multirec/scheduler/scheduler.py) and   *)
(* of the recording pipeline it drives (multirec/recorder/recorder.py).    *)
(*                                                                         *)
(* Everything runs on one asyncio event loop, so the code between two      *)
(* awaits is one atomic step.  Each action below is one such step of one   *)
(* coroutine: the worker loop, a submission, the shutdown request, or the  *)
(* task that runs one recording.                                           *)
(***************************************************************************)
EXTENDS Naturals, Sequences, FiniteSets

\* ------------------------------------------------------------------ bounds
MaxJobs == 3        \* recordings that can be submitted / recorders that exist
MaxLimit == 2       \* largest concurrency_limit the configuration is drawn from

MaxRetry == 2       \* largest retry_max_attempts the configuration is drawn from

\* The defaults of the Config model.
DefaultConcurrencyLimit == 4
DefaultSegmentDurationMin == 30
DefaultRetryMaxAttempts == 5
DefaultBackoffBaseSeconds == 5

Jobs == 1..MaxJobs

VARIABLES
    concurrency_limit,  \* Config.concurrency_limit
    retry_max_attempts, \* Config.retry_max_attempts
    queue,              \* Scheduler.queue: the asyncio.Queue of RecordingTask, as job ids
    running,            \* Scheduler.running: the jobs whose future is a key of the dict
    _cancelled,         \* Scheduler._cancelled
    wpc,                \* where start()/_worker_loop() is suspended
    nextId,             \* the next RecordingTask add_recording will create
    admitted,           \* history: the jobs in the order create_task launched them
    attempt,            \* history: how many times each job's pipeline was launched
    queued_at_shutdown, \* history: the jobs in the queue when shutdown() was called
    result,             \* RecordingTask.result
    recorder,           \* RecordingTask.recorder is set (a StreamRecorder exists)
    cancel_event,       \* StreamRecorder._cancel_event.is_set()
    must_cancel,        \* fut.cancel() was called on the still pending task
    rpc,                \* where record() (and the task around it) is suspended
    ret,                \* the RecordingResult record() returned
    proc,               \* the external process record() spawned that has not exited
    temp_dir,           \* the directory mkdtemp() made for record() is on disk
    returncode,         \* history: what each stage's process of record() exited with
    on_update,          \* StreamRecorder.on_update is set (a callback was given)
    files,              \* the file system: what is at each configuration file path
    loaded              \* what the last call of load_config() did

vars == <<concurrency_limit, queue, running, _cancelled, wpc, nextId, admitted,
          attempt, queued_at_shutdown, result, recorder, cancel_event, must_cancel,
          rpc, ret, proc, temp_dir, returncode, on_update, retry_max_attempts,
          files, loaded>>

\* What no step of the scheduler or of record() changes.
envVars == <<on_update, retry_max_attempts, files, loaded>>

schedVars == <<concurrency_limit, queue, running, _cancelled, wpc, nextId,
               admitted, attempt, queued_at_shutdown, result>>

\* ------------------------------------------------------- RecordingResult
\* The results record() constructs, by the place that constructs them.
None == "None"
Success == "Success"                  \* success=True, file_path, end_time
Cancelled == "Cancelled"              \* error="Cancelled"
DownloadFailed == "DownloadFailed"    \* error="yt-dlp exited with <rc>"
ReadError == "ReadError"              \* error=str(e), e raised by readline()
ProgressError == "ProgressError"      \* error=str(e), e raised while handling a line
TranscodeFailed == "TranscodeFailed"  \* error="ffmpeg transcode exited with <rc>"

Results == {Success, Cancelled, DownloadFailed, ReadError, ProgressError,
            TranscodeFailed}

\* Mutant of RecordingResultOf: every result is built as the failures are,
\* from success, error and start_time alone.
RecordingResultBare(kind) ==
    [success |-> kind = Success,
     file_path |-> None,
     error |-> CASE kind = Success -> None
                 [] kind = Cancelled -> "Cancelled"
                 [] kind = DownloadFailed -> "yt-dlp exited with <rc>"
                 [] kind \in {ReadError, ProgressError} -> "str(e)"
                 [] kind = TranscodeFailed -> "ffmpeg transcode exited with <rc>",
     end_time |-> None]

\* The fields of the RecordingResult each return statement of record() builds;
\* a field that is not passed keeps the dataclass default None.
RecordingResultOf(kind) ==
    [success |-> kind = Success,
     file_path |-> IF kind = Success THEN "output_file" ELSE None,
     error |-> CASE kind = Success -> None
                 [] kind = Cancelled -> "Cancelled"
                 [] kind = DownloadFailed -> "yt-dlp exited with <rc>"
                 [] kind \in {ReadError, ProgressError} -> "str(e)"
                 [] kind = TranscodeFailed -> "ffmpeg transcode exited with <rc>",
     end_time |-> IF kind = Success THEN "end_time" ELSE None]

\* No external process of the job is alive.
NoProcess == "no process"

\* Exit status of an external process: zero or not.
ExitCodes == {"zero", "nonzero"}

\* ------------------------------------------------------------ task state
\* record() is suspended at one of these awaits.
Suspended == {"created", "spawn", "read", "term_wait", "wait_rc", "exc_wait",
              "progress_exc_wait", "remux_spawn", "remux_comm", "trans_spawn", "trans_comm"}

\* The state of the asyncio.Task wrapping _run_recorder(job).
FutState(j) ==
    CASE rpc[j] = "none" -> "none"
      [] rpc[j] \in Suspended -> "pending"
      [] rpc[j] = "returned" -> "result"
      [] rpc[j] = "raised" -> "exception"
      [] rpc[j] = "cancelled" -> "cancelled"

FutDone(j) == FutState(j) \in {"result", "exception", "cancelled"}

\* ------------------------------------------------- StreamRecorder.record
\* A step of job j's task is taken only while the task is pending and no
\* cancellation of the task is waiting to be delivered.
CanStep(j, at) == rpc[j] = at /\ ~must_cancel[j]

\* The head of `while True:` in record(): the only place the cancel event is read.
ReadLoopHead(j) == IF cancel_event[j] THEN "term_wait" ELSE "read"

\* The stages of record() and what is known of a stage's process: there is
\* none yet, it has not exited, wait() or communicate() reported its exit code,
\* or it was sent SIGTERM and waited for.
Stages == {"download", "remux", "transcode"}
NotRun == "not run"
StillRunning == "running"
Terminated == "terminated"

\* The stage's process is in state st.
Stage(j, stage, st) ==
    returncode' = [returncode EXCEPT ![j] = [@ EXCEPT ![stage] = st]]

\* record() returns r.
Return(j, r) ==
    /\ rpc' = [rpc EXCEPT ![j] = "returned"]
    /\ ret' = [ret EXCEPT ![j] = r]

Goto(j, at) ==
    /\ rpc' = [rpc EXCEPT ![j] = at]
    /\ UNCHANGED ret

\* _run_recorder up to the first await of record(): the recorder is constructed
\* and stored on the task, the temporary directory is made, yt-dlp is spawned.
RunRecorder(j) ==
    /\ CanStep(j, "created")
    /\ recorder' = [recorder EXCEPT ![j] = TRUE]
    /\ temp_dir' = [temp_dir EXCEPT ![j] = TRUE]
    /\ Goto(j, "spawn")
    /\ UNCHANGED <<envVars, proc, returncode, schedVars, cancel_event, must_cancel>>

\* create_subprocess_exec(yt-dlp) returns, or raises (outside the try block).
SpawnDownload(j, ok) ==
    /\ CanStep(j, "spawn")
    /\ IF ok THEN Goto(j, ReadLoopHead(j)) ELSE Goto(j, "raised")
    /\ proc' = [proc EXCEPT ![j] = IF ok THEN "yt-dlp" ELSE NoProcess]
    /\ IF ok THEN Stage(j, "download", StillRunning) ELSE UNCHANGED returncode
    /\ UNCHANGED <<envVars, temp_dir, schedVars, recorder, cancel_event, must_cancel>>

\* The lines readline() can deliver to this recorder.  With a callback set, a
\* non-empty line is parsed and passed to on_update, and either can raise
\* (float() on a size such as "1.2.3", or the callback itself).
Lines(j) == {"text", "eof", "error"} \cup (IF on_update[j] THEN {"bad progress"} ELSE {})

\* process.stdout.readline() returns a line, returns b"" or raises; a line is
\* then handled inside the same try block.
ReadLine(j, line) ==
    /\ CanStep(j, "read")
    /\ line \in Lines(j)
    /\ CASE line = "text" -> Goto(j, ReadLoopHead(j))
         [] line = "eof" -> Goto(j, "wait_rc")
         [] line = "error" -> Goto(j, "exc_wait")
         [] line = "bad progress" -> Goto(j, "progress_exc_wait")
    /\ UNCHANGED <<envVars, proc, temp_dir, returncode, schedVars, recorder, cancel_event, must_cancel>>

\* rc = await process.wait() after the read loop.
DownloadExit(j, rc) ==
    /\ CanStep(j, "wait_rc")
    /\ IF rc = "zero" THEN Goto(j, "remux_spawn") ELSE Return(j, DownloadFailed)
    /\ proc' = [proc EXCEPT ![j] = NoProcess]
    /\ Stage(j, "download", rc)
    /\ UNCHANGED <<envVars, temp_dir, schedVars, recorder, cancel_event, must_cancel>>

\* Mutant of TerminateDone: the process is sent SIGTERM and the result returned
\* without awaiting process.wait().
TerminateNoWait(j) ==
    /\ rpc[j] \in {"term_wait", "exc_wait", "progress_exc_wait"}
    /\ ~must_cancel[j]
    /\ Return(j, CASE rpc[j] = "term_wait" -> Cancelled
                   [] rpc[j] = "exc_wait" -> ReadError
                   [] rpc[j] = "progress_exc_wait" -> ProgressError)
    /\ UNCHANGED <<envVars, proc, returncode, temp_dir, schedVars, recorder, cancel_event,
                   must_cancel>>

\* `process.terminate(); await process.wait(); return RecordingResult(...)`:
\* the cancel branch of the read loop returns error="Cancelled", the
\* `except Exception` handler returns error=str(e).
TerminateDone(j) ==
    /\ rpc[j] \in {"term_wait", "exc_wait", "progress_exc_wait"}
    /\ ~must_cancel[j]
    /\ Return(j, CASE rpc[j] = "term_wait" -> Cancelled
                   [] rpc[j] = "exc_wait" -> ReadError
                   [] rpc[j] = "progress_exc_wait" -> ProgressError)
    /\ proc' = [proc EXCEPT ![j] = NoProcess]
    /\ Stage(j, "download", Terminated)
    /\ UNCHANGED <<envVars, temp_dir, schedVars, recorder, cancel_event, must_cancel>>

\* create_subprocess_exec(ffmpeg -c copy) returns or raises.
SpawnRemux(j, ok) ==
    /\ CanStep(j, "remux_spawn")
    /\ IF ok THEN Goto(j, "remux_comm") ELSE Goto(j, "raised")
    /\ proc' = [proc EXCEPT ![j] = IF ok THEN "ffmpeg-remux" ELSE NoProcess]
    /\ IF ok THEN Stage(j, "remux", StillRunning) ELSE UNCHANGED returncode
    /\ UNCHANGED <<envVars, temp_dir, schedVars, recorder, cancel_event, must_cancel>>

\* await remux_proc.communicate(); on success the metadata is written, the
\* temporary directory removed (shutil.rmtree) and the success result returned.
RemuxExit(j, rc) ==
    /\ CanStep(j, "remux_comm")
    /\ IF rc = "zero" THEN Return(j, Success) ELSE Goto(j, "trans_spawn")
    /\ proc' = [proc EXCEPT ![j] = NoProcess]
    /\ Stage(j, "remux", rc)
    /\ temp_dir' = [temp_dir EXCEPT ![j] = IF rc = "zero" THEN FALSE ELSE @]
    /\ UNCHANGED <<envVars, schedVars, recorder, cancel_event, must_cancel>>

\* create_subprocess_exec(ffmpeg -c:v libx264) returns or raises.
SpawnTranscode(j, ok) ==
    /\ CanStep(j, "trans_spawn")
    /\ IF ok THEN Goto(j, "trans_comm") ELSE Goto(j, "raised")
    /\ proc' = [proc EXCEPT ![j] = IF ok THEN "ffmpeg-transcode" ELSE NoProcess]
    /\ IF ok THEN Stage(j, "transcode", StillRunning) ELSE UNCHANGED returncode
    /\ UNCHANGED <<envVars, temp_dir, schedVars, recorder, cancel_event, must_cancel>>

\* Mutant of TranscodeExit: the exit code of the transcode is not looked at.
TranscodeExitUnchecked(j, rc) ==
    /\ CanStep(j, "trans_comm")
    /\ Return(j, Success)
    /\ proc' = [proc EXCEPT ![j] = NoProcess]
    /\ Stage(j, "transcode", rc)
    /\ temp_dir' = [temp_dir EXCEPT ![j] = FALSE]
    /\ UNCHANGED <<envVars, schedVars, recorder, cancel_event, must_cancel>>

\* await trans_proc.communicate(); shutil.rmtree(temp_dir) is called before
\* either return.
TranscodeExit(j, rc) ==
    /\ CanStep(j, "trans_comm")
    /\ IF rc = "zero" THEN Return(j, Success) ELSE Return(j, TranscodeFailed)
    /\ proc' = [proc EXCEPT ![j] = NoProcess]
    /\ Stage(j, "transcode", rc)
    /\ temp_dir' = [temp_dir EXCEPT ![j] = FALSE]
    /\ UNCHANGED <<envVars, schedVars, recorder, cancel_event, must_cancel>>

\* StreamRecorder.cancel(), called from outside while record() is in progress
\* or after it.
Cancel(j) ==
    /\ recorder[j]
    /\ ~cancel_event[j]
    /\ cancel_event' = [cancel_event EXCEPT ![j] = TRUE]
    /\ UNCHANGED <<envVars, proc, temp_dir, returncode, schedVars, recorder, must_cancel, rpc, ret>>

\* The event loop resumes a task on which fut.cancel() was called: CancelledError
\* is thrown at the await where record() is suspended.  It is a BaseException,
\* so `except Exception` does not catch it and the task ends cancelled.
TaskCancelled(j) ==
    /\ rpc[j] \in Suspended
    /\ must_cancel[j]
    /\ Goto(j, "cancelled")
    /\ UNCHANGED <<envVars, proc, temp_dir, returncode, schedVars, recorder, cancel_event, must_cancel>>

\* A process whose record() was cancelled is waited for by nobody.  It goes on
\* until it ends by itself (or is killed when its transport is collected).
OrphanExit(j) ==
    /\ rpc[j] = "cancelled"
    /\ proc[j] # NoProcess
    /\ proc' = [proc EXCEPT ![j] = NoProcess]
    /\ UNCHANGED <<envVars, temp_dir, returncode, schedVars, recorder, cancel_event, must_cancel, rpc, ret>>

\* Any step of record() for job j.
RecordStep(j) ==
    \/ RunRecorder(j)
    \/ \E ok \in BOOLEAN : SpawnDownload(j, ok)
    \/ \E line \in {"text", "eof", "error", "bad progress"} : ReadLine(j, line)
    \/ \E rc \in ExitCodes : DownloadExit(j, rc)
    \/ TerminateDone(j)
    \/ \E ok \in BOOLEAN : SpawnRemux(j, ok)
    \/ \E rc \in ExitCodes : RemuxExit(j, rc)
    \/ \E ok \in BOOLEAN : SpawnTranscode(j, ok)
    \/ \E rc \in ExitCodes : TranscodeExit(j, rc)

\* -------------------------------------------------------------- Scheduler
\* Mutant of Full: the limit test lets one job too many in.
FullOffByOne(run) == Cardinality(run) > concurrency_limit

\* `while len(self.running) >= self.config.concurrency_limit`
Full(run) == Cardinality(run) >= concurrency_limit

\* Mutant of QueueGet: the queue hands out its newest item.
QueueGetLifo(q) == <<q[Len(q)], SubSeq(q, 1, Len(q) - 1)>>

\* asyncio.Queue.get() on a non-empty queue: the item taken and the queue left.
QueueGet(q) == <<Head(q), Tail(q)>>

\* The worker loop from `while not self._cancelled` to its next await, with the
\* flag reading c and the running set run.  Flag clear: wait for a finished task
\* when the limit is reached, else wait for the queue.  Flag set: the shutdown
\* path, which calls recorder.cancel() on every running job that has a recorder
\* and fut.cancel() on every running future, then awaits gather().
LoopHead(c, run) ==
    IF c
    THEN /\ cancel_event' =
              [j \in Jobs |-> IF j \in run /\ recorder[j] THEN TRUE ELSE cancel_event[j]]
         /\ must_cancel' =
              [j \in Jobs |-> IF j \in run /\ (j \notin running \/ FutState(j) = "pending")
                              THEN TRUE ELSE must_cancel[j]]  \* a task just created is pending
         /\ wpc' = "gather"
    ELSE /\ UNCHANGED <<envVars, proc, temp_dir, returncode, cancel_event, must_cancel>>
         /\ wpc' = IF Full(run) THEN "wait" ELSE "get"

\* Scheduler.start(): clears the flag and enters the worker loop.
Start ==
    /\ wpc = "init"
    /\ _cancelled' = FALSE
    /\ LoopHead(FALSE, running)
    /\ UNCHANGED <<envVars, proc, temp_dir, returncode, concurrency_limit, queue, running, nextId, admitted, attempt,
                   queued_at_shutdown, result, recorder, rpc, ret>>

\* Scheduler.add_recording(): a new RecordingTask is put on the unbounded queue.
AddRecording ==
    /\ nextId <= MaxJobs
    /\ queue' = Append(queue, nextId)
    /\ nextId' = nextId + 1
    /\ UNCHANGED <<envVars, proc, temp_dir, returncode, concurrency_limit, running, _cancelled, wpc, admitted, attempt,
                   queued_at_shutdown, result, recorder, cancel_event, must_cancel,
                   rpc, ret>>

\* Scheduler.shutdown(): sets the flag and returns.
Shutdown ==
    /\ ~_cancelled
    /\ _cancelled' = TRUE
    /\ queued_at_shutdown' = {queue[i] : i \in DOMAIN queue}
    /\ UNCHANGED <<envVars, proc, temp_dir, returncode, concurrency_limit, queue, running, wpc, nextId, admitted, attempt,
                   result, recorder, cancel_event, must_cancel, rpc, ret>>

\* Mutant of WaitDone: the result is stored but the future is looked up, not
\* popped, so the job stays in running.
WaitDoneNoPop ==
    /\ wpc = "wait"
    /\ \E j \in running : FutDone(j)
    /\ LET done == {j \in running : FutDone(j)} IN
       /\ \A j \in done : FutState(j) = "result"
       /\ result' = [j \in Jobs |-> IF j \in done THEN ret[j] ELSE result[j]]
    /\ wpc' = "get"
    /\ UNCHANGED <<envVars, proc, temp_dir, returncode, concurrency_limit, queue, running, _cancelled, nextId,
                   admitted, attempt, queued_at_shutdown, recorder, cancel_event,
                   must_cancel, rpc, ret>>

\* asyncio.wait(..., FIRST_COMPLETED) returns the futures that are done; each is
\* popped from running and its result stored on the task.  The inner while is
\* then tested again and, when it is false, the loop goes on to queue.get()
\* without reading the flag.
WaitDone ==
    /\ wpc = "wait"
    /\ \E j \in running : FutDone(j)
    /\ LET done == {j \in running : FutDone(j)} IN
       /\ \A j \in done : FutState(j) = "result"
       /\ running' = running \ done
       /\ result' = [j \in Jobs |-> IF j \in done THEN ret[j] ELSE result[j]]
       /\ wpc' = IF Full(running \ done) THEN "wait" ELSE "get"
    /\ UNCHANGED <<envVars, proc, temp_dir, returncode, concurrency_limit, queue, _cancelled, nextId, admitted, attempt,
                   queued_at_shutdown, recorder, cancel_event, must_cancel, rpc, ret>>

\* The same, when a done future holds an exception (or was cancelled): d.result()
\* raises in the worker loop after d was popped.  The done futures are visited in
\* set order, so any of the others may have been handled before it.
WaitDoneRaises ==
    /\ wpc = "wait"
    /\ LET done == {j \in running : FutDone(j)} IN
       \E d \in done :
          /\ FutState(d) # "result"
          /\ \E before \in SUBSET {j \in done : FutState(j) = "result"} :
                /\ running' = running \ (before \cup {d})
                /\ result' = [j \in Jobs |-> IF j \in before THEN ret[j] ELSE result[j]]
          /\ wpc' = "crashed"
    /\ UNCHANGED <<envVars, proc, temp_dir, returncode, concurrency_limit, queue, _cancelled, nextId, admitted, attempt,
                   queued_at_shutdown, recorder, cancel_event, must_cancel, rpc, ret>>

\* wait_for(self.queue.get(), 0.5) returns a task: it is launched with
\* create_task and entered in running; the loop returns to its head.
GetItem ==
    /\ wpc = "get"
    /\ queue # <<>>
    /\ LET next_task == QueueGet(queue)[1] IN
       /\ queue' = QueueGet(queue)[2]
       /\ running' = running \cup {next_task}
       /\ rpc' = [rpc EXCEPT ![next_task] = "created"]
       /\ admitted' = Append(admitted, next_task)
       /\ attempt' = [attempt EXCEPT ![next_task] = @ + 1]
       /\ LoopHead(_cancelled, running \cup {next_task})
    /\ UNCHANGED <<envVars, proc, temp_dir, returncode, concurrency_limit, _cancelled, nextId, queued_at_shutdown, result,
                   recorder, ret>>

\* wait_for times out on an empty queue: `continue`.
GetTimeout ==
    /\ wpc = "get"
    /\ queue = <<>>
    /\ LoopHead(_cancelled, running)
    /\ UNCHANGED <<envVars, proc, temp_dir, returncode, concurrency_limit, queue, running, _cancelled, nextId, admitted,
                   attempt, queued_at_shutdown, result, recorder, rpc, ret>>

\* asyncio.gather(*self.running.keys(), return_exceptions=True) completes when
\* every running future is done; _worker_loop and start() return.
GatherDone ==
    /\ wpc = "gather"
    /\ \A j \in running : FutDone(j)
    /\ wpc' = "done"
    /\ UNCHANGED <<envVars, proc, temp_dir, returncode, concurrency_limit, queue, running, _cancelled, nextId, admitted,
                   attempt, queued_at_shutdown, result, recorder, cancel_event,
                   must_cancel, rpc, ret>>

\* ------------------------------------------------------------ configuration
\* The values the Config model accepts: validate_concurrency rejects a
\* concurrency_limit below 1; retry_max_attempts is an int with no validator.
ConfigAccepts(limit, retries) == limit >= 1

\* A path-valued field is a pathlib.Path in a Config and a str in YAML.
PathValue(p) == [t |-> "Path", v |-> p]
StrValue(p) == [t |-> "str", v |-> p]

\* Config(): every field at its default.
DefaultConfig ==
    [download_dir |-> PathValue("<home>/multirec_downloads"),
     db_path |-> PathValue("<home>/.multirec.db"),
     concurrency_limit |-> DefaultConcurrencyLimit,
     segment_duration_min |-> DefaultSegmentDurationMin,
     retry_max_attempts |-> DefaultRetryMaxAttempts,
     backoff_base_seconds |-> DefaultBackoffBaseSeconds]

\* A dict of keyword arguments for Config: per field, the empty set when the
\* key is missing and the one-element set of its value when it is present.
EmptyData ==
    [download_dir |-> {}, db_path |-> {}, concurrency_limit |-> {},
     segment_duration_min |-> {}, retry_max_attempts |-> {},
     backoff_base_seconds |-> {}]

\* cfg.model_dump(mode="json"): every field is a key, a Path becomes a str.
model_dump_json(cfg) ==
    [download_dir |-> {StrValue(cfg.download_dir.v)},
     db_path |-> {StrValue(cfg.db_path.v)},
     concurrency_limit |-> {cfg.concurrency_limit},
     segment_duration_min |-> {cfg.segment_duration_min},
     retry_max_attempts |-> {cfg.retry_max_attempts},
     backoff_base_seconds |-> {cfg.backoff_base_seconds}]

\* What a path of the file system holds.
Absent == [kind |-> "absent", data |-> EmptyData]
EmptyFile == [kind |-> "empty", data |-> EmptyData]
MalformedFile == [kind |-> "malformed", data |-> EmptyData]

\* yaml.safe_dump(data, f): the file holds the mapping.
safe_dump(data) == [kind |-> "yaml", data |-> data]

\* `yaml.safe_load(f) or {}` with `data = {}` kept on yaml.YAMLError: an empty
\* document loads as None, a malformed one raises.
safe_load_or_empty(file) == IF file.kind = "yaml" THEN file.data ELSE EmptyData

\* The value of a field from the keyword arguments, or its default.
FieldOf(given, default) == IF given = {} THEN default ELSE CHOOSE x \in given : TRUE

\* Config(**data): a str given for a Path field is coerced to a Path.
ConfigFrom(data) ==
    [download_dir |-> PathValue(FieldOf(data.download_dir, DefaultConfig.download_dir).v),
     db_path |-> PathValue(FieldOf(data.db_path, DefaultConfig.db_path).v),
     concurrency_limit |-> FieldOf(data.concurrency_limit, DefaultConfig.concurrency_limit),
     segment_duration_min |->
         FieldOf(data.segment_duration_min, DefaultConfig.segment_duration_min),
     retry_max_attempts |->
         FieldOf(data.retry_max_attempts, DefaultConfig.retry_max_attempts),
     backoff_base_seconds |->
         FieldOf(data.backoff_base_seconds, DefaultConfig.backoff_base_seconds)]

\* Config(**data) raises a ValidationError instead of returning.
ConfigRejects(data) ==
    LET c == ConfigFrom(data)
    IN \/ ~ConfigAccepts(c.concurrency_limit, c.retry_max_attempts)
       \/ c.segment_duration_min < 1

\* The three places a configuration file is looked for, as absolute paths.
ExplicitPath == "/etc/multirec.yaml"
ProjectPath == "<cwd>/config.yaml"
FallbackPath == "<home>/.multirec/config.yaml"
Paths == {ExplicitPath, ProjectPath, FallbackPath}

\* The `path` argument of load_config: None, the empty string, or a path.
NoPath == "None"
PathArgs == {NoPath, "", ExplicitPath, "~/.multirec/config.yaml"}

\* Path(path).expanduser()
expanduser(path) == IF path = "~/.multirec/config.yaml" THEN FallbackPath ELSE path

\* `if path:` is false for None and for the empty string.
Truthy(path) == path \notin {NoPath, ""}

exists(fs, p) == fs[p].kind # "absent"

\* _resolve_config_file looking in the home directory before the project.
_resolve_home_first(path, fs) ==
    IF Truthy(path) /\ exists(fs, expanduser(path))
    THEN [file |-> expanduser(path), fs |-> fs]
    ELSE IF exists(fs, FallbackPath)
    THEN [file |-> FallbackPath, fs |-> fs]
    ELSE IF exists(fs, ProjectPath)
    THEN [file |-> ProjectPath, fs |-> fs]
    ELSE [file |-> FallbackPath,
          fs |-> [fs EXCEPT ![FallbackPath] = safe_dump(model_dump_json(DefaultConfig))]]

\* _resolve_config_file writing the defaults whenever it falls back.
_resolve_overwriting(path, fs) ==
    IF Truthy(path) /\ exists(fs, expanduser(path))
    THEN [file |-> expanduser(path), fs |-> fs]
    ELSE IF exists(fs, ProjectPath)
    THEN [file |-> ProjectPath, fs |-> fs]
    ELSE [file |-> FallbackPath,
          fs |-> [fs EXCEPT ![FallbackPath] = safe_dump(model_dump_json(DefaultConfig))]]

\* _resolve_config_file(path): the file to read and the file system it leaves.
_resolve_config_file(path, fs) ==
    IF Truthy(path) /\ exists(fs, expanduser(path))
    THEN [file |-> expanduser(path), fs |-> fs]
    ELSE IF exists(fs, ProjectPath)
    THEN [file |-> ProjectPath, fs |-> fs]
    ELSE IF exists(fs, FallbackPath)
    THEN [file |-> FallbackPath, fs |-> fs]
    ELSE [file |-> FallbackPath,
          fs |-> [fs EXCEPT ![FallbackPath] = safe_dump(model_dump_json(DefaultConfig))]]

\* Before load_config() was ever called.
NotLoaded ==
    [status |-> "not called", arg |-> NoPath, path |-> NoPath, wrote |-> FALSE,
     config |-> DefaultConfig]

\* load_config(path): returns (Config(**data), config_file), or raises what
\* Config(**data) raises.  `wrote` records that this call wrote the fallback.
load_config(path) ==
    LET r == _resolve_config_file(path, files)
        data == safe_load_or_empty(r.fs[r.file])
    IN /\ files' = r.fs
       /\ loaded' = IF ConfigRejects(data)
                    THEN [status |-> "raised", arg |-> path, path |-> NoPath,
                          wrote |-> r.fs # files, config |-> DefaultConfig]
                    ELSE [status |-> "returned", arg |-> path, path |-> r.file,
                          wrote |-> r.fs # files, config |-> ConfigFrom(data)]
       /\ UNCHANGED <<schedVars, recorder, cancel_event, must_cancel, rpc, ret, proc,
                      temp_dir, returncode,
                      on_update, retry_max_attempts>>

\* The configuration files a user writes: mappings that set some of
\* download_dir and concurrency_limit, the dump of the defaults, an empty file
\* and one that is not YAML.
UserFiles ==
    {safe_dump([EmptyData EXCEPT !.download_dir = dir, !.concurrency_limit = limit]) :
        dir \in {{}, {StrValue("/srv/recordings")}},
        limit \in {{}} \cup {{n} : n \in 0..MaxLimit}}
    \cup {safe_dump(model_dump_json(DefaultConfig)), EmptyFile, MalformedFile}

\* No configuration file anywhere.
NoFiles == [p \in Paths |-> Absent]

\* ---------------------------------------------------------- specifications
\* The scheduler as MainWindow constructs it: nothing submitted, start() not
\* yet running, no recorder in existence.
Init ==
    /\ concurrency_limit \in 1..MaxLimit
    /\ retry_max_attempts = DefaultRetryMaxAttempts
    /\ queue = <<>>
    /\ running = {}
    /\ _cancelled = FALSE
    /\ wpc = "init"
    /\ nextId = 1
    /\ admitted = <<>>
    /\ attempt = [j \in Jobs |-> 0]
    /\ queued_at_shutdown = {}
    /\ result = [j \in Jobs |-> None]
    /\ recorder = [j \in Jobs |-> FALSE]
    /\ cancel_event = [j \in Jobs |-> FALSE]
    /\ must_cancel = [j \in Jobs |-> FALSE]
    /\ rpc = [j \in Jobs |-> "none"]
    /\ ret = [j \in Jobs |-> None]
    /\ proc = [j \in Jobs |-> NoProcess]
    /\ temp_dir = [j \in Jobs |-> FALSE]
    /\ returncode = [j \in Jobs |-> [stage \in Stages |-> NotRun]]
    /\ on_update = [j \in Jobs |-> FALSE]
    /\ files = NoFiles
    /\ loaded = NotLoaded

Worker == Start \/ WaitDone \/ WaitDoneRaises \/ GetItem \/ GetTimeout \/ GatherDone

Next ==
    \/ Start
    \/ AddRecording
    \/ Shutdown
    \/ WaitDone
    \/ WaitDoneRaises
    \/ GetItem
    \/ GetTimeout
    \/ GatherDone
    \/ \E j \in Jobs : RecordStep(j)
    \/ \E j \in Jobs : TaskCancelled(j)
    \/ \E j \in Jobs : OrphanExit(j)

Spec == Init /\ [][Next]_vars

\* The event loop runs every coroutine that is ready: the worker loop resumes
\* when its await completes, and a task whose cancellation was requested is
\* resumed with CancelledError.  The external processes owe nothing.
SchedFair ==
    /\ Spec
    /\ WF_vars(Worker)
    /\ \A j \in Jobs : WF_vars(TaskCancelled(j))

\* In addition every external process eventually produces its next event
\* (a line, end of output, its exit status), so every record() finishes.
FairSpec ==
    /\ SchedFair
    /\ \A j \in Jobs : WF_vars(RecordStep(j))

\* The scheduler constructed from any configuration Config accepts.
InitAnyConfig ==
    /\ \E limit \in 0..MaxLimit, retries \in 0..MaxRetry :
          /\ ConfigAccepts(limit, retries)
          /\ concurrency_limit = limit
          /\ retry_max_attempts = retries
    /\ queue = <<>>
    /\ running = {}
    /\ _cancelled = FALSE
    /\ wpc = "init"
    /\ nextId = 1
    /\ admitted = <<>>
    /\ attempt = [j \in Jobs |-> 0]
    /\ queued_at_shutdown = {}
    /\ result = [j \in Jobs |-> None]
    /\ recorder = [j \in Jobs |-> FALSE]
    /\ cancel_event = [j \in Jobs |-> FALSE]
    /\ must_cancel = [j \in Jobs |-> FALSE]
    /\ rpc = [j \in Jobs |-> "none"]
    /\ ret = [j \in Jobs |-> None]
    /\ proc = [j \in Jobs |-> NoProcess]
    /\ temp_dir = [j \in Jobs |-> FALSE]
    /\ returncode = [j \in Jobs |-> [stage \in Stages |-> NotRun]]
    /\ on_update = [j \in Jobs |-> FALSE]
    /\ files = NoFiles
    /\ loaded = NotLoaded

SpecAnyConfig == InitAnyConfig /\ [][Next]_vars

\* StreamRecorder on its own: every recorder is constructed, record() has been
\* called on each, and cancel() may be called at any moment.
InitRec ==
    /\ concurrency_limit = 1
    /\ retry_max_attempts = DefaultRetryMaxAttempts
    /\ queue = <<>>
    /\ running = {}
    /\ _cancelled = FALSE
    /\ wpc = "init"
    /\ nextId = 1
    /\ admitted = <<>>
    /\ attempt = [j \in Jobs |-> 0]
    /\ queued_at_shutdown = {}
    /\ result = [j \in Jobs |-> None]
    /\ recorder = [j \in Jobs |-> TRUE]
    /\ cancel_event = [j \in Jobs |-> FALSE]
    /\ must_cancel = [j \in Jobs |-> FALSE]
    /\ rpc = [j \in Jobs |-> "created"]
    /\ ret = [j \in Jobs |-> None]
    /\ proc = [j \in Jobs |-> NoProcess]
    /\ temp_dir = [j \in Jobs |-> FALSE]
    /\ returncode = [j \in Jobs |-> [stage \in Stages |-> NotRun]]
    /\ on_update \in [Jobs -> BOOLEAN]
    /\ files = NoFiles
    /\ loaded = NotLoaded

NextRec ==
    \/ \E j \in Jobs : RecordStep(j)
    \/ \E j \in Jobs : Cancel(j)

SpecRec == InitRec /\ [][NextRec]_vars

\* Every step record() takes by itself is eventually taken: a program is
\* started or fails to start, and a process that was sent SIGTERM exits.
\* Nothing makes a running program print a line, close its output or exit.
FairRec ==
    /\ SpecRec
    /\ \A j \in Jobs :
          /\ WF_vars(RunRecorder(j))
          /\ WF_vars(\E ok \in BOOLEAN : SpawnDownload(j, ok))
          /\ WF_vars(TerminateDone(j))
          /\ WF_vars(\E ok \in BOOLEAN : SpawnRemux(j, ok))
          /\ WF_vars(\E ok \in BOOLEAN : SpawnTranscode(j, ok))

\* load_config() on its own: any files at the three paths, and any number of
\* calls with any argument.
InitCfg ==
    /\ concurrency_limit = 1
    /\ retry_max_attempts = DefaultRetryMaxAttempts
    /\ queue = <<>>
    /\ running = {}
    /\ _cancelled = FALSE
    /\ wpc = "init"
    /\ nextId = 1
    /\ admitted = <<>>
    /\ attempt = [j \in Jobs |-> 0]
    /\ queued_at_shutdown = {}
    /\ result = [j \in Jobs |-> None]
    /\ recorder = [j \in Jobs |-> FALSE]
    /\ cancel_event = [j \in Jobs |-> FALSE]
    /\ must_cancel = [j \in Jobs |-> FALSE]
    /\ rpc = [j \in Jobs |-> "none"]
    /\ ret = [j \in Jobs |-> None]
    /\ proc = [j \in Jobs |-> NoProcess]
    /\ temp_dir = [j \in Jobs |-> FALSE]
    /\ returncode = [j \in Jobs |-> [stage \in Stages |-> NotRun]]
    /\ on_update = [j \in Jobs |-> FALSE]
    /\ files \in [Paths -> UserFiles \cup {Absent}]
    /\ loaded = NotLoaded

NextCfg == \E path \in PathArgs : load_config(path)

SpecCfg == InitCfg /\ [][NextCfg]_vars

\* ------------------------------------------------------------------ claims
InQueue(j) == \E i \in DOMAIN queue : queue[i] = j
Submitted(j) == j < nextId
Pending == {j \in Jobs : FutState(j) = "pending"}

\* A job is terminal once its RecordingResult is recorded on its RecordingTask.
Terminal(j) == result[j] # None

\* The weakest reading of "finished": the result is recorded or at least the
\* job's task is over.
Finished(j) == Terminal(j) \/ FutDone(j)

\* A pipeline has failed somewhere: record() raised or returned a failure.
SomeFailure == \E j \in Jobs : rpc[j] = "raised" \/ ret[j] \notin {None, Success}

\* shutdown() was called after start() began and the flag is set.
ShutdownBegun == _cancelled /\ wpc # "init"

\* C1: in every reachable state the running dict holds at most concurrency_limit
\* jobs, and at most concurrency_limit recordings are executing.
C1_ConcurrencyBound ==
    /\ Cardinality(running) <= concurrency_limit
    /\ Cardinality(Pending) <= concurrency_limit

\* C1 witness: the limit is reached while a further job waits in the queue.
C1_Witness ==
    /\ concurrency_limit >= 2
    /\ Cardinality(running) = concurrency_limit
    /\ Cardinality(Pending) = concurrency_limit
    /\ queue # <<>>
    /\ wpc = "wait"

\* C2 (as claimed): once the scheduler is started, every submitted job eventually
\* has its result recorded, unless shutdown is requested, the worker loop dies or
\* some pipeline fails.
C2_AllJobsTerminate ==
    \A j \in Jobs :
        (Submitted(j) /\ wpc # "init")
            ~> (Terminal(j) \/ _cancelled \/ wpc = "crashed" \/ SomeFailure)

\* C3 (as claimed): when shutdown(), called on a started scheduler, returns, every job that was running or queued
\* when it was called is finished.
C3_ShutdownWaitsForJobs ==
    [][(~_cancelled /\ _cancelled' /\ wpc # "init")
          => \A j \in Jobs : (j \in running \/ InQueue(j)) => Finished(j)']_vars

\* C4 (as claimed): after shutdown is requested every running job's task is
\* eventually over and the worker loop eventually returns, whatever the external
\* processes do.
C4_ShutdownCompletes ==
    /\ ShutdownBegun ~> (wpc \in {"done", "crashed"})
    /\ \A j \in Jobs : (ShutdownBegun /\ j \in running) ~> (FutDone(j) \/ wpc = "crashed")

\* C5 (as claimed): when the shutdown path of the worker loop has completed, no
\* job that was in the queue at the shutdown request is still queued.
C5_QueueDrained ==
    wpc = "done" => \A j \in queued_at_shutdown : ~InQueue(j)

\* C6 (as claimed): after shutdown has begun no submission enters the queue.
C6_SubmitAfterShutdownFails ==
    [][ShutdownBegun => \A j \in Jobs : InQueue(j)' => InQueue(j)]_vars

\* C7 (as claimed): after shutdown has begun no job is taken from the queue and
\* admitted to the running set.
C7_NoDequeueAfterShutdown ==
    [][ShutdownBegun => running' \subseteq running]_vars

\* C8: jobs are launched in submission order: when a job is launched, every job
\* submitted before it (ids are given in submission order) was launched earlier.
C8_FifoAdmission ==
    \A p \in DOMAIN admitted :
        \A a \in Jobs :
            a < admitted[p] => \E q \in 1..(p - 1) : admitted[q] = a

\* C8 witness: two jobs were launched while a third one waited in the queue.
C8_Witness ==
    /\ Len(admitted) >= 2
    /\ queue # <<>>
    /\ \E j \in Jobs : FutState(j) = "result"

\* C9 (as claimed): a job is recorded as failed only once its attempt count has
\* reached retry_max_attempts.
C9_RetryRule ==
    \A j \in Jobs :
        result[j] \in {DownloadFailed, ReadError, TranscodeFailed}
            => attempt[j] >= retry_max_attempts

\* C10 (as claimed): a record() that returns after cancel() was called during it
\* returns the Cancelled result.
C10_CancelReportedAsCancelled ==
    [][\A j \in Jobs :
          (cancel_event[j] /\ rpc[j] \in Suspended /\ rpc'[j] = "returned")
              => ret'[j] = Cancelled]_vars

\* C11 (as claimed): a cancelled job's task is over only once its external process
\* has exited, and when the shutdown path of the worker loop has completed no
\* process spawned by a recording is alive.
C11_NoProcessLeak ==
    /\ \A j \in Jobs : FutState(j) = "cancelled" => proc[j] = NoProcess
    /\ wpc = "done" => \A j \in Jobs : proc[j] = NoProcess

\* C12 (as claimed): no failure of a job, raised or returned, ends the worker loop
\* with an exception.
C12_FailureDoesNotHaltLoop ==
    wpc # "crashed"

\* C13 (as claimed): every job's entry in running is released on every exit path,
\* so once the worker loop has returned no job whose task is over is still in
\* the running set.
C13_SlotReleased ==
    wpc = "done" => \A j \in running : ~FutDone(j)

\* The job was launched at some time.
Admitted(j) == \E i \in DOMAIN admitted : admitted[i] = j

\* C14 (as claimed): for a job that was in the queue when shutdown() was called,
\* no StreamRecorder is constructed and no part of record() runs.
C14_NoPipelineForQueuedJob ==
    \A j \in queued_at_shutdown :
        ~recorder[j] /\ rpc[j] \in {"none", "created", "cancelled"}

\* C15: once a job's result is recorded, the result, the job's task and its
\* launch count never change, and the job is neither queued nor running again.
C15_TerminalAbsorbing ==
    [][\A j \in Jobs :
          Terminal(j) =>
              /\ result'[j] = result[j]
              /\ rpc'[j] = rpc[j]
              /\ attempt'[j] = attempt[j]
              /\ ~InQueue(j)'
              /\ j \notin running']_vars

\* C15 witness: a job is terminal while another one is still being recorded.
C15_Witness ==
    \E j, k \in Jobs : Terminal(j) /\ FutState(k) = "pending" /\ k \in running

\* C19 (as claimed): on a started scheduler that is not shut down, the job at the
\* head of the queue is eventually launched whenever fewer than concurrency_limit
\* recordings are executing.
C19_AdmissionProgress ==
    \A j \in Jobs :
        (/\ wpc # "init"
         /\ ~_cancelled
         /\ queue # <<>>
         /\ Head(queue) = j
         /\ Cardinality(Pending) < concurrency_limit)
            ~> (Admitted(j) \/ _cancelled)

\* C16 (as claimed): whatever configuration Config accepted, no job is launched
\* more often than retry_max_attempts.
C16_AttemptBounded ==
    \A j \in Jobs : attempt[j] <= retry_max_attempts

\* C20 (as claimed): a line whose progress text cannot be parsed, or on which the
\* on_update callback raises, neither ends the download nor becomes the result.
C20_ProgressNeverFailsJob ==
    \A j \in Jobs : rpc[j] # "progress_exc_wait" /\ ret[j] # ProgressError

\* The file at `path` is named by the caller and is there.
NamedFileExists(path) == Truthy(path) /\ exists(files, expanduser(path))

\* C17: a call of load_config that returns, returns the path chosen by the
\* precedence explicit path (when that file exists), then config.yaml of the
\* working directory (when it exists), then ~/.multirec/config.yaml, and the
\* Config it returns carries the values the file at that path sets.
C17_PathPrecedence ==
    [][\A path \in PathArgs :
          load_config(path) /\ loaded'.status = "returned" =>
             /\ NamedFileExists(path) => loaded'.path = expanduser(path)
             /\ ~NamedFileExists(path) /\ exists(files, ProjectPath) =>
                   loaded'.path = ProjectPath
             /\ ~NamedFileExists(path) /\ ~exists(files, ProjectPath) =>
                   loaded'.path = FallbackPath
             /\ \A n \in files'[loaded'.path].data.concurrency_limit :
                   loaded'.config.concurrency_limit = n
             /\ \A d \in files'[loaded'.path].data.download_dir :
                   loaded'.config.download_dir.v = d.v]_vars

\* A named file is missing, the project file and the home fallback both exist,
\* and the call returned the project file with the limit that file sets.
C17_Witness ==
    /\ loaded.status = "returned"
    /\ loaded.arg = ExplicitPath
    /\ ~exists(files, ExplicitPath)
    /\ exists(files, FallbackPath)
    /\ loaded.path = ProjectPath
    /\ files[ProjectPath].data.concurrency_limit = {MaxLimit}
    /\ loaded.config.concurrency_limit = MaxLimit
    /\ files[FallbackPath].data.concurrency_limit = {1}

\* The file holds a mapping of exactly the six defaults, paths as strings.
HoldsDefaults(file) ==
    /\ file.kind = "yaml"
    /\ file.data.download_dir = {StrValue("<home>/multirec_downloads")}
    /\ file.data.db_path = {StrValue("<home>/.multirec.db")}
    /\ file.data.concurrency_limit = {DefaultConcurrencyLimit}
    /\ file.data.segment_duration_min = {DefaultSegmentDurationMin}
    /\ file.data.retry_max_attempts = {DefaultRetryMaxAttempts}
    /\ file.data.backoff_base_seconds = {DefaultBackoffBaseSeconds}

\* C18: with no file at any of the paths, load_config writes the defaults to
\* ~/.multirec/config.yaml and returns that path with Config(); a fallback
\* file holding the written defaults reads back as Config(); and a call never
\* changes a fallback file that exists.
C18_DefaultFileCreated ==
    [][\A path \in PathArgs :
          load_config(path) =>
             /\ (\A p \in Paths : ~exists(files, p)) =>
                   /\ HoldsDefaults(files'[FallbackPath])
                   /\ loaded'.status = "returned"
                   /\ loaded'.path = FallbackPath
                   /\ loaded'.config = DefaultConfig
             /\ HoldsDefaults(files[FallbackPath]) /\ loaded'.path = FallbackPath =>
                   loaded'.config = DefaultConfig
             /\ exists(files, FallbackPath) =>
                   files'[FallbackPath] = files[FallbackPath]]_vars

\* A call wrote the fallback file, returned it, and nothing else exists.
C18_Witness ==
    /\ loaded.status = "returned"
    /\ loaded.wrote
    /\ loaded.path = FallbackPath
    /\ loaded.config = DefaultConfig
    /\ HoldsDefaults(files[FallbackPath])
    /\ ~exists(files, ProjectPath)
    /\ ~exists(files, ExplicitPath)

\* C21 (as claimed): record() never ends by raising; a program that cannot be
\* started ends it with a failure result instead.
C21_LaunchFailureReported == \A j \in Jobs : rpc[j] # "raised"

\* The exit codes that make a recording succeed: the download exits 0 and the
\* remux exits 0 or, after a failed remux, the transcode exits 0.
CodesSucceed(j) ==
    /\ returncode[j]["download"] = "zero"
    /\ \/ returncode[j]["remux"] = "zero"
       \/ returncode[j]["remux"] = "nonzero" /\ returncode[j]["transcode"] = "zero"

\* C22: a result other than Cancelled is the success result exactly when the
\* exit codes succeed; after a non-zero download exit the result is the
\* download failure and no normalization stage was run; the transcode is run
\* only after a remux that exited non-zero.
C22_OutcomeOfExitCodes ==
    \A j \in Jobs :
       /\ rpc[j] = "returned" /\ ret[j] # Cancelled =>
             (ret[j] = Success <=> CodesSucceed(j))
       /\ returncode[j]["download"] = "nonzero" =>
             /\ ret[j] = DownloadFailed
             /\ returncode[j]["remux"] = NotRun
             /\ returncode[j]["transcode"] = NotRun
       /\ returncode[j]["transcode"] # NotRun => returncode[j]["remux"] = "nonzero"

\* One recording succeeded through the fallback transcode, one failed in the
\* transcode and one failed in the download.
C22_Witness ==
    \E j, k, l \in Jobs :
       /\ ret[j] = Success /\ returncode[j]["remux"] = "nonzero"
       /\ returncode[j]["transcode"] = "zero"
       /\ ret[k] = TranscodeFailed /\ returncode[k]["transcode"] = "nonzero"
       /\ ret[l] = DownloadFailed /\ returncode[l]["download"] = "nonzero"

\* C23 (as claimed): once cancel() was called while record() is reading the
\* download's output, record() returns the Cancelled result.
C23_CancelObserved ==
    \A j \in Jobs : (cancel_event[j] /\ rpc[j] = "read") ~> (ret[j] = Cancelled)

\* C24 (as claimed): when record() has finished, by returning any result, the
\* temporary directory it made is gone.
C24_TempDirRemoved == \A j \in Jobs : rpc[j] = "returned" => ~temp_dir[j]

\* C25: every result record() returned is well-formed: a success has file_path
\* and end_time and no error, a failure has an error and no file_path.
C25_ResultWellFormed ==
    \A j \in Jobs :
       rpc[j] = "returned" =>
          LET r == RecordingResultOf(ret[j]) IN
          IF r.success
          THEN r.file_path # None /\ r.end_time # None /\ r.error = None
          ELSE r.error # None /\ r.file_path = None

\* A success and two failures of different kinds have been returned.
C25_Witness ==
    \E j, k, l \in Jobs :
       /\ rpc[j] = "returned" /\ ret[j] = Success
       /\ rpc[k] = "returned" /\ ret[k] = Cancelled
       /\ rpc[l] = "returned" /\ ret[l] = ReadError

\* record() is past the download stage: it returned, or it is normalizing.
PastDownload(j) ==
    rpc[j] \in {"returned", "remux_spawn", "remux_comm", "trans_spawn", "trans_comm"}

\* C28: when record() has returned a result or has gone on to normalization,
\* the download process has exited and record() has waited for it.
C28_DownloadExited ==
    \A j \in Jobs :
       PastDownload(j) =>
          /\ proc[j] # "yt-dlp"
          /\ returncode[j]["download"] \in {"zero", "nonzero", Terminated}

\* One record() returned Cancelled and one a read error, each after its download
\* was terminated and waited for, and one is remuxing a download that exited 0.
C28_Witness ==
    \E j, k, l \in Jobs :
       /\ ret[j] = Cancelled /\ returncode[j]["download"] = Terminated
       /\ ret[k] = ReadError /\ returncode[k]["download"] = Terminated
       /\ rpc[l] = "remux_comm" /\ returncode[l]["download"] = "zero"

\* C26 (as claimed): a shutdown() called before start() has begun to run is not
\* lost: the worker loop, once it runs, exits.
C26_ShutdownNotLost ==
    (_cancelled /\ wpc = "init") ~> (wpc \in {"done", "crashed"})

\* The places a submitted job can be.
Places(j) ==
    (IF InQueue(j) THEN {"queue"} ELSE {})
    \cup (IF j \in running THEN {"running"} ELSE {})
    \cup (IF Terminal(j) THEN {"finished"} ELSE {})

\* C27 (as claimed): every submitted job is in exactly one place: in the queue,
\* in the running set, or finished with its result recorded; and the queue
\* holds no job twice.
C27_JobConservation ==
    /\ \A j \in Jobs : Submitted(j) => Cardinality(Places(j)) = 1
    /\ \A i, k \in DOMAIN queue : queue[i] = queue[k] => i = k

====
